---- MODULE Spec2Model ----
(***************************************************************************)
(* tlschecker, src/src/lib.rs: Certificate::from(host) and the helpers it  *)
(* calls (from_entries, get_subject, get_issuer, get_certificate_info,     *)
(* get_validity_days, get_validity_in_hours, has_expired) and the From     *)
(* conversions into TLSValidationError.                                    *)
(*                                                                         *)
(* One call of Certificate::from is a sequential process: its position is  *)
(* call[c].pc, its locals are the other fields of call[c].  The resolver,  *)
(* the peer, the TLS library's view of the session and the wall clock are  *)
(* the environment: their answers are chosen with \E from bounded sets.    *)
(* A failed unwrap() is the result kind "Panic".                           *)
(***************************************************************************)
EXTENDS Integers, Sequences, FiniteSets, TLC

(***************************************************************************)
(* Bounds of the model.                                                    *)
(***************************************************************************)
NumCalls == 2
MaxChain == 2
MaxDays == 1
MaxTick == 2
WaitQuantum == 15

(***************************************************************************)
(* Program constants.                                                      *)
(***************************************************************************)
TIMEOUT == 30
HOURS_PER_DAY == 24
SECS_PER_DAY == 24 * 60 * 60

Calls == 1 .. NumCalls
MainCalls == {1}
MaxWait == TIMEOUT + WaitQuantum
Now0 == 20000 * SECS_PER_DAY + (SECS_PER_DAY \div 2)

None == << >>
Some(x) == << x >>
IsSome(o) == Len(o) = 1
Unwrap(o) == o[1]
Min(a, b) == IF a <= b THEN a ELSE b

RECURSIVE Decimal(_)
Decimal(n) ==
    IF n < 10 THEN << n >> ELSE Decimal(n \div 10) \o << n % 10 >>

(***************************************************************************)
(* X.509 structures as the openssl crate hands them to lib.rs.             *)
(* A name entry is a string that as_utf8() converts or fails to convert;   *)
(* a general name has one of the GeneralName types; an ASN.1 time is a     *)
(* well-formed instant (seconds) or malformed content.                     *)
(***************************************************************************)
Txt(s) == << [utf8 |-> TRUE, text |-> s] >>
Absent == << >>
BadText == << [utf8 |-> FALSE, text |-> ""] >>

Name(c, st, l, ou, o, cn) ==
    [COUNTRYNAME |-> c, STATEORPROVINCENAME |-> st, LOCALITYNAME |-> l,
     ORGANIZATIONALUNITNAME |-> ou, ORGANIZATIONNAME |-> o, COMMONNAME |-> cn]

Dns(s) == [type |-> "DNS", utf8 |-> TRUE, data |-> s]
BadDns == [type |-> "DNS", utf8 |-> FALSE, data |-> ""]
IpAddr(s) == [type |-> "IP", utf8 |-> TRUE, data |-> s]
Email(s) == [type |-> "EMAIL", utf8 |-> TRUE, data |-> s]

Time(t) == [valid |-> TRUE, t |-> t]
BadTime == [valid |-> FALSE, t |-> 0]

LeafName == Name(Absent, Absent, Absent, Absent, Absent, Txt("a.example"))
CaName == Name(Txt("US"), Absent, Absent, Absent, Txt("Let's Encrypt"), Txt("R3"))
RootName == Name(Txt("US"), Absent, Absent, Absent, Txt("ISRG"), Txt("ISRG Root X1"))

X509(subject, issuer, not_after, serial, san) ==
    [subject |-> subject, issuer |-> issuer,
     not_before |-> Time(Now0 - 30 * SECS_PER_DAY), not_after |-> not_after,
     serial |-> serial, version |-> 2, alg |-> "sha256WithRSAEncryption",
     san |-> san]

SerialOk(n) == [ok |-> TRUE, n |-> n]
SerialBad == [ok |-> FALSE, n |-> 0]

\* Offsets of not_after from Now0: whole days around now, each shifted by a
\* few seconds either way, so that both "less than a day" and "exactly on a
\* day boundary" occur.
NotAfterOffsets ==
    { d * SECS_PER_DAY + s : d \in (-MaxDays) .. MaxDays, s \in (-MaxTick - 1) .. (MaxTick + 1) }
NotAfters == { Time(Now0 + o) : o \in NotAfterOffsets }

\* The subject-alternative-name extensions a leaf may carry.
SanLists ==
    { None,
      Some(<< >>),
      Some(<< Dns("a.example"), Dns("www.a.example") >>),
      Some(<< Dns("a.example"), IpAddr("192.0.2.1"), Dns("b.example") >>),
      Some(<< Email("admin@a.example") >>),
      Some(<< Dns("a.example"), BadDns >>) }

GoodSan == Some(<< Dns("a.example"), Dns("www.a.example") >>)

\* Leaves whose decoding differs: by SAN extension, by subject text, by
\* serial number, by validity.
LeafCerts ==
    { X509(LeafName, CaName, na, SerialOk(1234), GoodSan) : na \in NotAfters }
    \cup { X509(LeafName, CaName, Time(Now0 + SECS_PER_DAY), SerialOk(1234), san) : san \in SanLists }
    \cup { X509(Name(Absent, Absent, Absent, Absent, Absent, BadText), CaName,
                Time(Now0 + SECS_PER_DAY), SerialOk(77), GoodSan),
           X509(Name(Absent, Absent, Absent, Absent, Absent, Absent), CaName,
                Time(Now0 + SECS_PER_DAY), SerialOk(78), None),
           X509(LeafName, CaName, Time(Now0 + SECS_PER_DAY), SerialBad, GoodSan),
           X509(LeafName, CaName, BadTime, SerialOk(79), GoodSan) }

\* Certificates a peer may present in its chain.
ChainCerts ==
    { X509(LeafName, CaName, Time(Now0 + SECS_PER_DAY), SerialOk(1234), GoodSan),
      X509(CaName, RootName, Time(Now0 + 900 * SECS_PER_DAY), SerialOk(5), None),
      X509(Name(Absent, Absent, Absent, Absent, Absent, BadText), CaName,
           Time(Now0 + SECS_PER_DAY), SerialOk(77), GoodSan) }

RECURSIVE SeqsUpTo(_, _)
SeqsUpTo(S, n) ==
    IF n = 0 THEN { << >> }
    ELSE LET shorter == SeqsUpTo(S, n - 1)
         IN  shorter \cup { Append(s, x) : s \in shorter, x \in S }

\* What the session reports after a handshake: ssl.peer_cert_chain() is
\* None or a stack of certificates, ssl.peer_certificate() None or a
\* certificate.
Sessions ==
    [ chain : {None} \cup { Some(s) : s \in SeqsUpTo(ChainCerts, MaxChain) },
      leaf : {None} \cup { Some(x) : x \in LeafCerts } ]

(***************************************************************************)
(* The helpers of lib.rs.  A helper that can panic returns                 *)
(* [panic |-> TRUE] in place of its value.                                 *)
(***************************************************************************)
Value(v) == [panic |-> FALSE, val |-> v]
Panicked(v) == [panic |-> TRUE, val |-> v]

\* from_entries: the first entry's text, "None" when there is no entry;
\* as_utf8().unwrap() panics on an entry that does not convert.
from_entries(entries) ==
    IF entries = << >> THEN Value("None")
    ELSE IF entries[1].utf8 THEN Value(entries[1].text)
    ELSE Panicked("")

EmptySubject ==
    [country_or_region |-> "", state_or_province |-> "", locality |-> "",
     organization_unit |-> "", organization |-> "", common_name |-> ""]
EmptyIssuer == [country_or_region |-> "", organization |-> "", common_name |-> ""]

get_subject(cert) ==
    LET s == cert.subject
        c == from_entries(s.COUNTRYNAME)
        st == from_entries(s.STATEORPROVINCENAME)
        l == from_entries(s.LOCALITYNAME)
        ou == from_entries(s.ORGANIZATIONALUNITNAME)
        cn == from_entries(s.COMMONNAME)
        o == from_entries(s.ORGANIZATIONNAME)
    IN  IF c.panic \/ st.panic \/ l.panic \/ ou.panic \/ cn.panic \/ o.panic
        THEN Panicked(EmptySubject)
        ELSE Value([country_or_region |-> c.val, state_or_province |-> st.val,
                    locality |-> l.val, organization_unit |-> ou.val,
                    organization |-> o.val, common_name |-> cn.val])

get_issuer(cert) ==
    LET i == cert.issuer
        cn == from_entries(i.COMMONNAME)
        o == from_entries(i.ORGANIZATIONNAME)
        c == from_entries(i.COUNTRYNAME)
    IN  IF cn.panic \/ o.panic \/ c.panic
        THEN Panicked(EmptyIssuer)
        ELSE Value([country_or_region |-> c.val, organization |-> o.val,
                    common_name |-> cn.val])

\* Asn1TimeRef's to_string(): the text of the instant.
TimeToString(a) ==
    IF a.valid THEN [text |-> "GMT", day |-> a.t \div SECS_PER_DAY, sec |-> a.t % SECS_PER_DAY]
    ELSE [text |-> "error", day |-> 0, sec |-> 0]

\* GeneralNameRef::dnsname(): the string of a DNS entry, None for an entry
\* of another type or one that is not UTF-8.
dnsname(general_name) ==
    IF general_name.type = "DNS" /\ general_name.utf8 THEN Some(general_name.data) ELSE None

\* The loop of get_certificate_info over subject_alt_names(): pushes
\* dnsname().unwrap() of every entry, so it panics at the first entry whose
\* dnsname() is None.
RECURSIVE push_sans(_, _)
push_sans(sans, general_names) ==
    IF general_names = << >> THEN Value(sans)
    ELSE LET d == dnsname(Head(general_names))
         IN  IF IsSome(d) THEN push_sans(Append(sans, Unwrap(d)), Tail(general_names))
             ELSE Panicked(sans)

collect_sans(cert) ==
    IF cert.san = None THEN Value(<< >>) ELSE push_sans(<< >>, Unwrap(cert.san))

\* Asn1TimeRef::diff(from, to): the days and seconds from `from` to `to`,
\* both of the same sign (day and second-of-day differences, then adjusted).
TimeDiff(from, to) ==
    LET diff_day == (to \div SECS_PER_DAY) - (from \div SECS_PER_DAY)
        diff_sec == (to % SECS_PER_DAY) - (from % SECS_PER_DAY)
    IN  IF diff_day > 0 /\ diff_sec < 0
        THEN [days |-> diff_day - 1, secs |-> diff_sec + SECS_PER_DAY]
        ELSE IF diff_day < 0 /\ diff_sec > 0
        THEN [days |-> diff_day + 1, secs |-> diff_sec - SECS_PER_DAY]
        ELSE [days |-> diff_day, secs |-> diff_sec]

\* The difference taken from not_after to now: not_after.diff(now).
get_validity_days_swapped(clock, not_after) ==
    IF not_after.valid THEN Value(TimeDiff(not_after.t, clock).days) ELSE Panicked(0)

\* get_validity_days(not_after), the clock reading of days_from_now(0) as
\* a parameter: now.diff(not_after).unwrap().days, and a panic when the
\* difference cannot be taken.

get_validity_days(clock, not_after) ==
    IF not_after.valid THEN Value(TimeDiff(clock, not_after.t).days) ELSE Panicked(0)

\* get_validity_in_hours(not_after): get_validity_days(not_after) * 24, on
\* its own reading of the clock.  A difference of two ASN.1 times is below
\* 3 700 000 days, so the i32 product does not overflow.
get_validity_in_hours(clock, not_after) ==
    LET d == get_validity_days(clock, not_after)
    IN  IF d.panic THEN d ELSE Value(d.val * HOURS_PER_DAY)

\* The comparison turned round: not_after > now.
has_expired_reversed(clock, not_after) ==
    not_after.valid /\ not_after.t > clock

\* has_expired(not_after): not_after < days_from_now(0); the comparison of
\* a malformed time is None, for which < is false.
has_expired(clock, not_after) ==
    not_after.valid /\ not_after.t < clock

\* One link of the chain: lines 86-92.
EmptyChain ==
    [subject |-> "", issuer |-> "", valid_from |-> TimeToString(BadTime),
     valid_to |-> TimeToString(BadTime), signature_algorithm |-> ""]

to_chain(cert) ==
    LET subject == from_entries(cert.subject.COMMONNAME)
        issuer == from_entries(cert.issuer.COMMONNAME)
    IN  IF subject.panic \/ issuer.panic THEN Panicked(EmptyChain)
        ELSE Value([subject |-> subject.val,
                    valid_to |-> TimeToString(cert.not_after),
                    valid_from |-> TimeToString(cert.not_before),
                    issuer |-> issuer.val,
                    signature_algorithm |-> cert.alg])

\* .iter().map(..).collect::<Vec<Chain>>() over the peer's stack.
RECURSIVE map_chain(_, _)
map_chain(acc, stack) ==
    IF stack = << >> THEN Value(acc)
    ELSE LET link == to_chain(Head(stack))
         IN  IF link.panic THEN Panicked(acc)
             ELSE map_chain(Append(acc, link.val), Tail(stack))

(***************************************************************************)
(* TLSValidationError and the From conversions (lines 202-237).            *)
(***************************************************************************)
TLSValidationError(msg) == [details |-> msg]

\* io::Error's to_string() for the failures of resolve, connect and
\* set_read_timeout.
IoErrorToString(e) ==
    CASE e = "lookup" -> "failed to lookup address information: Name or service not known"
      [] e = "refused" -> "Connection refused (os error 111)"
      [] e = "timedout" -> "connection timed out"
      [] e = "setsockopt" -> "Invalid argument (os error 22)"

FromIoError(e) == TLSValidationError(IoErrorToString(e))
FromStr(e) == TLSValidationError(e)
FromErrorStack(e) == TLSValidationError(e)

\* The handshake error's own text kept as the message.
FromHandshakeError_passthrough(e) == TLSValidationError(e)

\* From<HandshakeError<S>>: the cause is dropped.
FromHandshakeError(e) == TLSValidationError("TLS handshake failed.")

\* Why a handshake may fail, as the text of the HandshakeError.
HandshakeFailures ==
    { "no shared cipher", "wrong version number", "asn1 encoding routines: decode error",
      "unexpected eof" }

(***************************************************************************)
(* State.                                                                  *)
(*   now       the wall clock, in seconds (what days_from_now(0) reads)    *)
(*   conns     the TCP connections that are open                           *)
(*   nextConn  the identity the next connection gets                       *)
(*   call      the calls of Certificate::from: position, locals, result    *)
(***************************************************************************)
VARIABLES now, conns, nextConn, call

vars == << now, conns, nextConn, call >>

\* The sequence of blocking I/O steps of connector.connect(tcp_stream).
HandshakeFlights == << "write", "read", "write" >>

Host(c) == [name |-> "host.example", n |-> c]

EmptyData ==
    [subject |-> EmptySubject, issued |-> EmptyIssuer,
     valid_from |-> TimeToString(BadTime), valid_to |-> TimeToString(BadTime),
     validity_days |-> 0, validity_hours |-> 0, is_expired |-> FALSE,
     cert_sn |-> << >>, cert_ver |-> << >>, cert_alg |-> "", sans |-> << >>]

NoResult == [kind |-> "none", details |-> "", cert |-> None]
Ok(certificate) == [kind |-> "Ok", details |-> "", cert |-> Some(certificate)]
Err(e) == [kind |-> "Err", details |-> e.details, cert |-> None]
Panic == [kind |-> "Panic", details |-> "", cert |-> None]

InitCall(c) ==
    [pc |-> "start", host |-> Host(c), waited |-> 0, hs_i |-> 1,
     connector |-> FALSE, tcp_stream |-> None, stream |-> None,
     opened |-> {}, log |-> << >>, cause |-> "",
     session |-> [chain |-> None, leaf |-> None],
     peer_cert_chain |-> << >>, x509_ref |-> None,
     data |-> EmptyData, reads |-> << >>, result |-> NoResult]

Init ==
    /\ now = Now0
    /\ conns = {}
    /\ nextConn = 1
    /\ call = [c \in Calls |-> InitCall(c)]

\* The connections a call's locals own: tcp_stream, or the SslStream that
\* took it over.
Held(r) ==
    (IF IsSome(r.tcp_stream) THEN {Unwrap(r.tcp_stream)} ELSE {})
    \cup (IF IsSome(r.stream) THEN {Unwrap(r.stream)} ELSE {})

\* A stream that is leaked instead of dropped.
Released_nothing(r) == {}

\* What leaving the scope of Certificate::from closes: every local is
\* dropped, by return, by ? and by unwinding alike.
Released(r) == Held(r)

\* Leaving Certificate::from with `res`, the locals dropped.
Leave(c, r, res) ==
    /\ call' = [call EXCEPT ![c] =
                   [r EXCEPT !.pc = "done", !.result = res, !.waited = 0, !.hs_i = 1,
                             !.connector = FALSE, !.tcp_stream = None, !.stream = None]]
    /\ conns' = conns \ Released(r)

Goto(c, r, pc) == call' = [call EXCEPT ![c] = [r EXCEPT !.pc = pc, !.waited = 0]]

Logged(r, stage) == [r EXCEPT !.log = Append(@, stage)]
Failed(r, stage, cause) == [r EXCEPT !.log = Append(@, stage), !.cause = cause]

(***************************************************************************)
(* The wall clock advances.                                                *)
(***************************************************************************)
Tick ==
    /\ now < Now0 + MaxTick
    /\ now' = now + 1
    /\ UNCHANGED << conns, nextConn, call >>

(***************************************************************************)
(* Lines 61-66: the SslContext, the Ssl object, the SNI host name.         *)
(***************************************************************************)
Setup(c) ==
    /\ call[c].pc = "start"
    /\ \E ok \in BOOLEAN :
         IF ok
         THEN /\ Goto(c, [Logged(call[c], "setup") EXCEPT !.connector = TRUE], "resolve")
              /\ UNCHANGED conns
         ELSE Leave(c, Failed(call[c], "setup", "openssl"), Err(FromErrorStack("OpenSSL error")))
    /\ UNCHANGED << now, nextConn >>

(***************************************************************************)
(* Lines 68-72: remote.to_socket_addrs()?.next().ok_or(..)?                *)
(* to_socket_addrs takes no timeout: the call waits as long as the         *)
(* resolver does.                                                          *)
(***************************************************************************)
ResolveWait(c) ==
    /\ call[c].pc = "resolve"
    /\ call[c].waited + WaitQuantum <= MaxWait
    /\ call' = [call EXCEPT ![c].waited = @ + WaitQuantum]
    /\ UNCHANGED << now, conns, nextConn >>

ResolveError(c) ==
    /\ call[c].pc = "resolve"
    /\ Leave(c, Failed(call[c], "resolve", "lookup"), Err(FromIoError("lookup")))
    /\ UNCHANGED << now, nextConn >>

ResolveEmpty(c) ==
    /\ call[c].pc = "resolve"
    /\ Leave(c, Failed(call[c], "resolve", "no address"),
             Err(FromStr("Failed parse remote hostname")))
    /\ UNCHANGED << now, nextConn >>

ResolveOk(c) ==
    /\ call[c].pc = "resolve"
    /\ Goto(c, Logged(call[c], "resolve"), "connect")
    /\ UNCHANGED << now, conns, nextConn >>

(***************************************************************************)
(* Line 74: TcpStream::connect_timeout(&socket_addr, TIMEOUT)?             *)
(***************************************************************************)
ConnectWait(c) ==
    /\ call[c].pc = "connect"
    /\ call[c].waited < TIMEOUT
    /\ call' = [call EXCEPT ![c].waited = Min(@ + WaitQuantum, TIMEOUT)]
    /\ UNCHANGED << now, conns, nextConn >>

ConnectOk(c) ==
    /\ call[c].pc = "connect"
    /\ Goto(c, [Logged(call[c], "connect") EXCEPT !.tcp_stream = Some(nextConn),
                                                  !.opened = @ \cup {nextConn}],
            "set_read_timeout")
    /\ conns' = conns \cup {nextConn}
    /\ nextConn' = nextConn + 1
    /\ UNCHANGED now

ConnectRefused(c) ==
    /\ call[c].pc = "connect"
    /\ Leave(c, Failed(call[c], "connect", "refused"), Err(FromIoError("refused")))
    /\ UNCHANGED << now, nextConn >>

ConnectTimeout(c) ==
    /\ call[c].pc = "connect"
    /\ call[c].waited = TIMEOUT
    /\ Leave(c, Failed(call[c], "connect", "timedout"), Err(FromIoError("timedout")))
    /\ UNCHANGED << now, nextConn >>

(***************************************************************************)
(* Line 76: tcp_stream.set_read_timeout(Some(TIMEOUT))?                    *)
(***************************************************************************)
SetReadTimeout(c) ==
    /\ call[c].pc = "set_read_timeout"
    /\ \E ok \in BOOLEAN :
         IF ok
         THEN /\ Goto(c, [Logged(call[c], "set_read_timeout") EXCEPT !.hs_i = 1], "handshake")
              /\ UNCHANGED conns
         ELSE Leave(c, Failed(call[c], "set_read_timeout", "setsockopt"),
                    Err(FromIoError("setsockopt")))
    /\ UNCHANGED << now, nextConn >>

(***************************************************************************)
(* Line 77: connector.connect(tcp_stream)?  A read waits at most TIMEOUT   *)
(* (the read timeout of line 76); no write timeout is set.                 *)
(***************************************************************************)
HandshakeOp(r) == HandshakeFlights[r.hs_i]

HandshakeWait(c) ==
    /\ call[c].pc = "handshake"
    /\ IF HandshakeOp(call[c]) = "read"
       THEN /\ call[c].waited < TIMEOUT
            /\ call' = [call EXCEPT ![c].waited = Min(@ + WaitQuantum, TIMEOUT)]
       ELSE /\ call[c].waited + WaitQuantum <= MaxWait
            /\ call' = [call EXCEPT ![c].waited = @ + WaitQuantum]
    /\ UNCHANGED << now, conns, nextConn >>

HandshakeIo(c) ==
    /\ call[c].pc = "handshake"
    /\ call[c].hs_i < Len(HandshakeFlights)
    /\ call' = [call EXCEPT ![c].hs_i = @ + 1, ![c].waited = 0]
    /\ UNCHANGED << now, conns, nextConn >>

HandshakeOk(c, sessions) ==
    /\ call[c].pc = "handshake"
    /\ call[c].hs_i = Len(HandshakeFlights)
    /\ \E s \in sessions :
         Goto(c, [Logged(call[c], "handshake") EXCEPT !.session = s,
                                                    !.stream = call[c].tcp_stream,
                                                    !.tcp_stream = None],
              "peer_cert_chain")
    /\ UNCHANGED << now, conns, nextConn >>

HandshakeFail(c) ==
    /\ call[c].pc = "handshake"
    /\ \E e \in HandshakeFailures :
         Leave(c, Failed(call[c], "handshake", e), Err(FromHandshakeError(e)))
    /\ UNCHANGED << now, nextConn >>

HandshakeReadTimeout(c) ==
    /\ call[c].pc = "handshake"
    /\ HandshakeOp(call[c]) = "read"
    /\ call[c].waited = TIMEOUT
    /\ Leave(c, Failed(call[c], "handshake", "read timed out"),
             Err(FromHandshakeError("read timed out")))
    /\ UNCHANGED << now, nextConn >>

(***************************************************************************)
(* Lines 82-93: ssl.peer_cert_chain().ok_or(..)?.iter().map(..).collect()  *)
(***************************************************************************)
PeerCertChain(c) ==
    /\ call[c].pc = "peer_cert_chain"
    /\ IF call[c].session.chain = None
       THEN Leave(c, Failed(call[c], "chain", "no chain"),
                  Err(FromStr("Peer certificate chain not found")))
       ELSE LET links == map_chain(<< >>, Unwrap(call[c].session.chain))
            IN  IF links.panic
                THEN Leave(c, Failed(call[c], "chain", "decode chain name"), Panic)
                ELSE /\ Goto(c, [Logged(call[c], "chain") EXCEPT !.peer_cert_chain = links.val],
                             "peer_certificate")
                     /\ UNCHANGED conns
    /\ UNCHANGED << now, nextConn >>

(***************************************************************************)
(* Line 95: ssl.peer_certificate().ok_or("Certificate not found")?         *)
(***************************************************************************)
PeerCertificate(c) ==
    /\ call[c].pc = "peer_certificate"
    /\ IF call[c].session.leaf = None
       THEN Leave(c, Failed(call[c], "leaf", "no leaf"), Err(FromStr("Certificate not found")))
       ELSE /\ Goto(c, [Logged(call[c], "leaf") EXCEPT !.x509_ref = call[c].session.leaf],
                    "info_sans")
            /\ UNCHANGED conns
    /\ UNCHANGED << now, nextConn >>

(***************************************************************************)
(* Lines 97, 158-183: get_certificate_info(&x509_ref), field by field in   *)
(* the order the struct expression evaluates them.                         *)
(***************************************************************************)
Cert(c) == Unwrap(call[c].x509_ref)

\* Lines 159-167.
InfoSans(c) ==
    /\ call[c].pc = "info_sans"
    /\ LET sans == collect_sans(Cert(c))
       IN  IF sans.panic
           THEN Leave(c, Failed(call[c], "extract", "decode san"), Panic)
           ELSE /\ Goto(c, [Logged(call[c], "extract") EXCEPT !.data.sans = sans.val],
                        "info_names")
                /\ UNCHANGED conns
    /\ UNCHANGED << now, nextConn >>

\* Lines 170-173.
InfoNames(c) ==
    /\ call[c].pc = "info_names"
    /\ LET subject == get_subject(Cert(c))
           issued == get_issuer(Cert(c))
       IN  IF subject.panic \/ issued.panic
           THEN Leave(c, [call[c] EXCEPT !.cause = "decode name"], Panic)
           ELSE /\ Goto(c, [call[c] EXCEPT !.data.subject = subject.val,
                                           !.data.issued = issued.val,
                                           !.data.valid_from = TimeToString(Cert(c).not_before),
                                           !.data.valid_to = TimeToString(Cert(c).not_after)],
                        "info_days")
                /\ UNCHANGED conns
    /\ UNCHANGED << now, nextConn >>

\* Line 174: validity_days, on its own reading of the clock.
InfoDays(c) ==
    /\ call[c].pc = "info_days"
    /\ LET days == get_validity_days(now, Cert(c).not_after)
       IN  IF days.panic
           THEN Leave(c, [call[c] EXCEPT !.cause = "decode validity"], Panic)
           ELSE /\ Goto(c, [call[c] EXCEPT !.data.validity_days = days.val,
                                           !.reads = Append(@, now)],
                        "info_hours")
                /\ UNCHANGED conns
    /\ UNCHANGED << now, nextConn >>

\* Line 175: validity_hours, on its own reading of the clock.
InfoHours(c) ==
    /\ call[c].pc = "info_hours"
    /\ LET hours == get_validity_in_hours(now, Cert(c).not_after)
       IN  IF hours.panic
           THEN Leave(c, [call[c] EXCEPT !.cause = "decode validity"], Panic)
           ELSE /\ Goto(c, [call[c] EXCEPT !.data.validity_hours = hours.val,
                                           !.reads = Append(@, now)],
                        "info_expired")
                /\ UNCHANGED conns
    /\ UNCHANGED << now, nextConn >>

\* Line 176: is_expired, on its own reading of the clock.
InfoExpired(c) ==
    /\ call[c].pc = "info_expired"
    /\ Goto(c, [call[c] EXCEPT !.data.is_expired = has_expired(now, Cert(c).not_after),
                               !.reads = Append(@, now)],
            "info_rest")
    /\ UNCHANGED << now, conns, nextConn >>

\* Lines 177-181: serial_number().to_bn().unwrap().to_string(), version,
\* signature algorithm.
InfoRest(c) ==
    /\ call[c].pc = "info_rest"
    /\ IF ~Cert(c).serial.ok
       THEN Leave(c, [call[c] EXCEPT !.cause = "decode serial"], Panic)
       ELSE /\ Goto(c, [call[c] EXCEPT !.data.cert_sn = Decimal(Cert(c).serial.n),
                                       !.data.cert_ver = Decimal(Cert(c).version),
                                       !.data.cert_alg = Cert(c).alg],
                    "return")
            /\ UNCHANGED conns
    /\ UNCHANGED << now, nextConn >>

\* Lines 98-112: the Certificate that from returns.
Certificate(r) ==
    [hostname |-> r.host,
     subject |-> r.data.subject,
     issued |-> r.data.issued,
     valid_from |-> r.data.valid_from,
     valid_to |-> r.data.valid_to,
     validity_days |-> r.data.validity_days,
     validity_hours |-> r.data.validity_hours,
     is_expired |-> r.data.is_expired,
     cert_sn |-> r.data.cert_sn,
     cert_ver |-> r.data.cert_ver,
     cert_alg |-> r.data.cert_alg,
     sans |-> r.data.sans,
     chain |-> Some(r.peer_cert_chain)]

\* Line 113.
ReturnOk(c) ==
    /\ call[c].pc = "return"
    /\ Leave(c, call[c], Ok(Certificate(call[c])))
    /\ UNCHANGED << now, nextConn >>

(***************************************************************************)
(* One step of call c, the sessions a handshake may end in drawn from      *)
(* `sessions`.                                                             *)
(***************************************************************************)
Step(c, sessions) ==
    \/ Setup(c)
    \/ ResolveWait(c)
    \/ ResolveError(c)
    \/ ResolveEmpty(c)
    \/ ResolveOk(c)
    \/ ConnectWait(c)
    \/ ConnectOk(c)
    \/ ConnectRefused(c)
    \/ ConnectTimeout(c)
    \/ SetReadTimeout(c)
    \/ HandshakeWait(c)
    \/ HandshakeIo(c)
    \/ HandshakeOk(c, sessions)
    \/ HandshakeFail(c)
    \/ HandshakeReadTimeout(c)
    \/ PeerCertChain(c)
    \/ PeerCertificate(c)
    \/ InfoSans(c)
    \/ InfoNames(c)
    \/ InfoDays(c)
    \/ InfoHours(c)
    \/ InfoExpired(c)
    \/ InfoRest(c)
    \/ ReturnOk(c)

\* One call, every session.
Next == Tick \/ \E c \in MainCalls : Step(c, Sessions)

Spec == Init /\ [][Next]_vars

\* Concurrent calls, each on one of a few sessions, the clock standing still.
ConcLeaf == X509(LeafName, CaName, Time(Now0 + SECS_PER_DAY), SerialOk(1234), GoodSan)

FewSessions ==
    { [chain |-> None, leaf |-> None],
      [chain |-> Some(<< ConcLeaf >>), leaf |-> Some(ConcLeaf)],
      [chain |-> Some(<< ConcLeaf >>),
       leaf |-> Some(X509(LeafName, CaName, Time(Now0 + SECS_PER_DAY), SerialOk(1234),
                          Some(<< Email("admin@a.example") >>)))] }

NextConc == \E c \in Calls : Step(c, FewSessions)

SpecConc == Init /\ [][NextConc]_vars

(***************************************************************************)
(* Vocabulary of the properties.                                           *)
(***************************************************************************)
Done(c) == call[c].pc = "done"
Returned(c) == Done(c) /\ call[c].result.kind = "Ok"
Report(c) == Unwrap(call[c].result.cert)
Leaf(c) == Unwrap(call[c].x509_ref)
ValidTo(c) == Leaf(c).not_after.t
InLog(r, stage) == \E i \in 1 .. Len(r.log) : r.log[i] = stage
\* The clock readings of get_validity_days, get_validity_in_hours and
\* has_expired, in that order.
ReadAt(c, i) == call[c].reads[i]

ExpiredBeforeAllReads(c) ==
    Returned(c) /\ \A i \in 1 .. Len(call[c].reads) : ValidTo(c) < ReadAt(c, i)

ValidAfterAllReads(c) ==
    Returned(c) /\ \A i \in 1 .. Len(call[c].reads) : ValidTo(c) > ReadAt(c, i)

\* C1, as claimed: a certificate whose valid_to is before the evaluation
\* instant, by any amount, is reported with is_expired = true and
\* validity_days < 0.
C1_AnyPastIsNegative ==
    \A c \in Calls :
        ExpiredBeforeAllReads(c) =>
            Report(c).is_expired /\ Report(c).validity_days < 0

\* C1, amended: a certificate whose valid_to is before every clock reading
\* of the call is reported with is_expired = true and validity_days <= 0,
\* and validity_days < 0 exactly when valid_to lies one whole day (86400 s)
\* or more before the reading get_validity_days takes.
C1_PastIsExpiredAndNotPositive ==
    \A c \in Calls :
        ExpiredBeforeAllReads(c) =>
            /\ Report(c).is_expired
            /\ Report(c).validity_days <= 0
            /\ Report(c).validity_days < 0 <=> ReadAt(c, 1) - ValidTo(c) >= SECS_PER_DAY

\* A certificate that expired less than a day before the call is returned.
C1_Witness ==
    \E c \in Calls :
        /\ ExpiredBeforeAllReads(c)
        /\ ReadAt(c, 1) - ValidTo(c) < SECS_PER_DAY
        /\ Report(c).validity_days = 0

\* C2, as claimed: a certificate whose valid_to is after the evaluation
\* instant, by any amount, is reported with is_expired = false and
\* validity_days > 0.
C2_AnyFutureIsPositive ==
    \A c \in Calls :
        ValidAfterAllReads(c) =>
            ~Report(c).is_expired /\ Report(c).validity_days > 0

\* C2, amended: a certificate whose valid_to is after every clock reading
\* of the call is reported with is_expired = false and validity_days >= 0,
\* and validity_days > 0 exactly when valid_to lies one whole day (86400 s)
\* or more after the reading get_validity_days takes.
C2_FutureIsValidAndNotNegative ==
    \A c \in Calls :
        ValidAfterAllReads(c) =>
            /\ ~Report(c).is_expired
            /\ Report(c).validity_days >= 0
            /\ Report(c).validity_days > 0 <=> ValidTo(c) - ReadAt(c, 1) >= SECS_PER_DAY

\* A certificate with less than a day of validity left is returned.
C2_Witness ==
    \E c \in Calls :
        /\ ValidAfterAllReads(c)
        /\ ValidTo(c) - ReadAt(c, 1) < SECS_PER_DAY
        /\ Report(c).validity_days = 0

\* C3: in every returned Certificate validity_hours = validity_days * 24,
\* however the clock advances between the two fields' computations.
C3_HoursAreDaysTimes24 ==
    \A c \in Calls :
        Returned(c) => Report(c).validity_hours = Report(c).validity_days * 24

RECURSIVE DnsEntries(_)
DnsEntries(general_names) ==
    IF general_names = << >> THEN << >>
    ELSE IF Head(general_names).type = "DNS"
    THEN << Head(general_names).data >> \o DnsEntries(Tail(general_names))
    ELSE DnsEntries(Tail(general_names))

AllDnsDecodable(general_names) ==
    \A i \in 1 .. Len(general_names) :
        general_names[i].type = "DNS" => general_names[i].utf8

\* C5: once the SAN entries of a leaf have been read, sans is the ordered
\* list of its DNS entries; entries of other types are skipped and do not
\* make the call fail; no extension gives the empty list.
C5_SansAreTheDnsEntries ==
    \A c \in Calls :
        (IsSome(call[c].x509_ref) /\ InLog(call[c], "extract")) =>
            LET san == Leaf(c).san
                names == IF san = None THEN << >> ELSE Unwrap(san)
            IN  AllDnsDecodable(names) =>
                    /\ call[c].cause # "decode san"
                    /\ call[c].data.sans = DnsEntries(names)

ResolutionCauses == { "lookup", "no address" }
ConnectionCauses == { "refused", "timedout" }
HandshakeCauses == HandshakeFailures \cup { "read timed out" }
DecodeCauses ==
    { "decode chain name", "decode san", "decode name", "decode validity", "decode serial" }

\* C6: the error names the stage that failed.  A failed resolution gives
\* the resolver's lookup error, or "Failed parse remote hostname" when the
\* lookup returned no address, and no connection is opened; a refused or
\* timed-out connect gives a non-empty connection error and no handshake
\* is made; a failed handshake gives "TLS handshake failed." whatever the
\* cause, a decode error inside the handshake included.
C6_ErrorNamesTheStage ==
    \A c \in Calls :
        Done(c) =>
            /\ call[c].cause \in ResolutionCauses =>
                  /\ call[c].result.kind = "Err"
                  /\ call[c].result.details =
                        (IF call[c].cause = "lookup"
                         THEN "failed to lookup address information: Name or service not known"
                         ELSE "Failed parse remote hostname")
                  /\ ~InLog(call[c], "connect")
                  /\ call[c].opened = {}
            /\ call[c].cause \in ConnectionCauses =>
                  /\ call[c].result.kind = "Err"
                  /\ call[c].result.details # ""
                  /\ call[c].result.details # "TLS handshake failed."
                  /\ ~InLog(call[c], "handshake")
            /\ call[c].cause \in HandshakeCauses =>
                  /\ call[c].result.kind = "Err"
                  /\ call[c].result.details = "TLS handshake failed."
                  /\ ~InLog(call[c], "chain") /\ ~InLog(call[c], "extract")

\* A handshake that failed on a decode error has ended the call.
C6_Witness ==
    \E c \in Calls :
        /\ Done(c)
        /\ call[c].cause = "asn1 encoding routines: decode error"
        /\ InLog(call[c], "resolve") /\ InLog(call[c], "connect")

\* C7: a call ends with Ok or with Err(TLSValidationError), and a field
\* that cannot be decoded ends it with Err, never with an abort.
C7_DecodeFailureIsErr ==
    \A c \in Calls :
        Done(c) =>
            /\ call[c].result.kind \in { "Ok", "Err" }
            /\ call[c].cause \in DecodeCauses => call[c].result.kind = "Err"

StageOrder == << "resolve", "connect", "handshake", "chain", "leaf", "extract" >>

RECURSIVE Stages(_)
Stages(log) ==
    IF log = << >> THEN << >>
    ELSE IF \E i \in 1 .. Len(StageOrder) : StageOrder[i] = Head(log)
    THEN << Head(log) >> \o Stages(Tail(log))
    ELSE Stages(Tail(log))

IsPrefix(s, t) == Len(s) <= Len(t) /\ \A i \in 1 .. Len(s) : s[i] = t[i]

\* C8: the stages run once each in the order resolve, connect, handshake,
\* chain, leaf, extraction; the first failure ends the call with Err, with
\* no Certificate; Ok is returned only after all six.
C8_StagesInOrderFirstFailureIsErr ==
    \A c \in Calls :
        /\ IsPrefix(Stages(call[c].log), StageOrder)
        /\ Done(c) =>
              /\ call[c].result.kind \in { "Ok", "Err" }
              /\ call[c].result.kind = "Ok" <=> call[c].cause = ""
              /\ call[c].result.kind = "Ok" => Stages(call[c].log) = StageOrder
              /\ call[c].result.kind = "Err" => call[c].result.cert = None

\* C9: when a call has ended, whatever its result, the connection it
\* opened is closed and its Ssl object is freed; an open connection is
\* held by exactly one running call, and no two calls have opened or hold
\* the same connection.
C9_NothingOutlivesTheCall ==
    /\ \A c \in Calls :
          Done(c) =>
              /\ call[c].opened \cap conns = {}
              /\ ~call[c].connector
              /\ Held(call[c]) = {}
    /\ \A k \in conns : \E c \in Calls : ~Done(c) /\ k \in Held(call[c])
    /\ \A c1, c2 \in Calls :
          c1 # c2 =>
              /\ call[c1].opened \cap call[c2].opened = {}
              /\ Held(call[c1]) \cap Held(call[c2]) = {}

\* One call has ended after opening a connection while another call holds
\* its own connection open.
C9_Witness ==
    \E c1, c2 \in Calls :
        /\ c1 # c2
        /\ Done(c1) /\ call[c1].opened # {}
        /\ ~Done(c2) /\ Held(call[c2]) # {}

\* C10: no blocking step of a call (resolve, connect, a handshake read or
\* write) lasts longer than TIMEOUT.
C10_EveryWaitWithinTimeout ==
    \A c \in Calls : call[c].waited <= TIMEOUT

====
